---- MODULE Spec2Model ----
(***************************************************************************)
(* Model of the YouTube playlist loader (src/unnamed/part_000, with the    *)
(* CONFIG object of src/js/config.js).                                     *)
(*                                                                         *)
(* JavaScript strings are sequences of one-character strings, so that the  *)
(* regular expression of formatDuration, padStart, substring and trim are  *)
(* computed character by character.  The JavaScript value undefined is the *)
(* one-element sequence <<"undefined">>, which is no character sequence.   *)
(***************************************************************************)
EXTENDS Integers, Sequences, FiniteSets, TLC

VARIABLES
    CONFIG,               \* the global CONFIG object, or undefined (config.js not loaded)
    YOUTUBE_PLAYLIST_ID,  \* window.YOUTUBE_PLAYLIST_ID
    hasNote,              \* whether the page holds a .videos-note element
    playlist,             \* provider side: the playlist's membership records, in order
    pc,                   \* position of initializePlaylist / fetchPlaylistVideos
    allVideos,            \* fetchPlaylistVideos: the accumulator
    nextPageToken,        \* fetchPlaylistVideos: the cursor
    log,                  \* every request issued by fetch(), in order of issue
    outstanding,          \* requests issued and not yet answered
    videosData,           \* items of the detail response, once received
    videos,               \* value returned by fetchPlaylistVideos, once it returned
    thrown,               \* error thrown by fetchPlaylistVideos, or NoError
    grid,                 \* contents of the .videos-grid element
    note,                 \* text of the .videos-note element
    shown,                \* kinds of content the grid has shown during the run
    input,                \* argument of a direct call of a formatter
    output                \* its result

progVars == <<CONFIG, YOUTUBE_PLAYLIST_ID, hasNote, playlist, pc, allVideos,
              nextPageToken, log, outstanding, videosData, videos, thrown,
              grid, note, shown>>
callVars == <<input, output>>
vars == <<CONFIG, YOUTUBE_PLAYLIST_ID, hasNote, playlist, pc, allVideos,
          nextPageToken, log, outstanding, videosData, videos, thrown,
          grid, note, shown, input, output>>

----------------------------------------------------------------------------
(* Bounds of the model. *)

MaxItems == 3      \* longest playlist
MaxPages == 3      \* most pages the provider splits a playlist over
MaxDigits == 2     \* most digits of one component of a duration
MaxTextLen == 4    \* longest text handed to truncateText

----------------------------------------------------------------------------
(* JavaScript values. *)

undefined == <<"undefined">>
EmptyString == << >>

Truthy(v) == v # undefined /\ v # EmptyString

\* a || b on strings
JsOr(a, b) == IF Truthy(a) THEN a ELSE b

Min(a, b) == IF a <= b THEN a ELSE b

IsDigit(c) == c \in {"0", "1", "2", "3", "4", "5", "6", "7", "8", "9"}

IsSpace(c) == c \in {" ", "\t", "\n"}

\* s.replace(c, ''): the first occurrence of the character c removed
ReplaceFirst(s, c) ==
    LET I == {i \in 1..Len(s) : s[i] = c}
    IN  IF I = {} THEN s
        ELSE LET i == CHOOSE k \in I : \A j \in I : k <= j
             IN  SubSeq(s, 1, i - 1) \o SubSeq(s, i + 1, Len(s))

\* padStart left out
PadStartNone(s, n) == s

\* s.padStart(n, '0')
PadStart(s, n) == [i \in 1..(IF Len(s) < n THEN n - Len(s) ELSE 0) |-> "0"] \o s

\* s.substring(0, n)
Substring0(s, n) == SubSeq(s, 1, Min(IF n < 0 THEN 0 ELSE n, Len(s)))

\* s.trim(): white space removed at both ends
Trim(s) ==
    LET I == {i \in 1..Len(s) : ~IsSpace(s[i])}
    IN  IF I = {} THEN EmptyString
        ELSE SubSeq(s, CHOOSE a \in I : \A j \in I : a <= j,
                       CHOOSE b \in I : \A j \in I : j <= b)

----------------------------------------------------------------------------
(* formatDuration *)

null == <<"null">>

\* length of the longest run of digits of s that starts at position p
DigitRun(s, p) ==
    LET N == {n \in 0..(Len(s) - p + 1) : \A k \in p..(p + n - 1) : IsDigit(s[k])}
    IN  CHOOSE n \in N : \A m \in N : m <= n

\* the optional group (\d+U)? tried at position p
Group(s, p, unit) ==
    LET n == DigitRun(s, p)
    IN  IF n >= 1 /\ p + n <= Len(s) /\ s[p + n] = unit
        THEN [text |-> SubSeq(s, p, p + n), next |-> p + n + 1]
        ELSE [text |-> undefined, next |-> p]

\* duration.match(/PT(\d+H)?(\d+M)?(\d+S)?/): null, or the groups 1..3
DurationMatch(s) ==
    LET I == {i \in 1..(Len(s) - 1) : s[i] = "P" /\ s[i + 1] = "T"}
    IN  IF I = {} THEN null
        ELSE LET i  == CHOOSE k \in I : \A j \in I : k <= j
                 g1 == Group(s, i + 2, "H")
                 g2 == Group(s, g1.next, "M")
                 g3 == Group(s, g2.next, "S")
             IN  <<g1.text, g2.text, g3.text>>

TypeError == <<"TypeError">>

formatDuration(duration) ==
    LET match == DurationMatch(duration)
    IN  IF match = null THEN TypeError
        ELSE LET hours   == ReplaceFirst(JsOr(match[1], EmptyString), "H")
                 minutes == ReplaceFirst(JsOr(match[2], EmptyString), "M")
                 seconds == ReplaceFirst(JsOr(match[3], EmptyString), "S")
             IN  IF Truthy(hours)
                 THEN hours \o <<":">> \o PadStart(minutes, 2) \o <<":">>
                            \o PadStart(seconds, 2)
                 ELSE JsOr(minutes, <<"0">>) \o <<":">> \o PadStart(seconds, 2)

----------------------------------------------------------------------------
(* truncateText *)

Ellipsis == <<".", ".", ".">>

\* the length test made strict
truncateTextStrict(text, maxLength) ==
    IF Len(text) < maxLength THEN text
    ELSE Trim(Substring0(text, maxLength)) \o Ellipsis

truncateText(text, maxLength) ==
    IF Len(text) <= maxLength THEN text
    ELSE Trim(Substring0(text, maxLength)) \o Ellipsis

----------------------------------------------------------------------------
(* Data of the provider and of the page. *)

MaxResults == 50

VideoIds == {"a", "b"}

Placeholder == <<"T", "U", "_", "A", "P", "I", "_", "K", "E", "Y", "_", "A", "Q", "U", "I">>

ApiKeys == {EmptyString, Placeholder, <<"k", "1">>}

PlaylistIds == {undefined, EmptyString, <<"P", "L">>}

\* the membership record of a video: the same video has the same snippet
Item(v) ==
    [videoId |-> v,
     title |-> IF v = "a" THEN "title a" ELSE "title b",
     description |-> IF v = "a" THEN <<"h", "i">> ELSE <<"y", "o", " ">>]

Playlists == UNION {[1..n -> {Item(v) : v \in VideoIds}] : n \in 0..MaxItems}

Durations == {<<"P", "T", "1", "5", "M", "3", "3", "S">>, <<"P", "T", "2", "H">>}

\* the statistics that go with each duration
ViewCountOf(d) == IF d = <<"P", "T", "2", "H">> THEN <<"1", "2">> ELSE <<"7">>

DetailRecords ==
    {[id |-> v, duration |-> d, viewCount |-> ViewCountOf(d)] :
        v \in VideoIds, d \in Durations}

\* a detail response holds at most one record per id, in any order
DetailResponses ==
    UNION {{s \in [1..n -> DetailRecords] :
                \A i, j \in 1..n : i # j => s[i].id # s[j].id}
           : n \in 0..Cardinality(VideoIds)}

Statuses == {403, 500}

DigitChars == <<"0", "1", "2", "3", "4", "5", "6", "7", "8", "9">>

\* the cursor that stands for "continue at offset n"
Tok(n) == <<"c", DigitChars[n + 1]>>

OffsetOf(token) ==
    IF token = EmptyString THEN 0 ELSE CHOOSE n \in 0..9 : Tok(n) = token

\* the cursors the provider may send with a page that ends at offset end
Cursors(end, page) ==
    (IF page < MaxPages THEN {Tok(end)} ELSE {})
        \cup (IF end = Len(playlist) THEN {undefined, EmptyString} ELSE {})

NoError == [stage |-> "none", status |-> 0]

NoteInitial == [written |-> FALSE, count |-> 0, suffix |-> ""]

GridInitial == [kind |-> "initial", cards |-> << >>, message |-> NoError, link |-> FALSE]

----------------------------------------------------------------------------
(* fetchPlaylistVideos: its pure parts. *)

PageRequest(token) == [kind |-> "playlistItems", pageToken |-> token, ids |-> << >>]

DetailRequest(ids) == [kind |-> "videos", pageToken |-> EmptyString, ids |-> ids]

\* the page put in front of the accumulator
AccumulatePrepend(acc, items) == items \o acc

\* allVideos.concat(data.items)
Accumulate(acc, items) == acc \o items

\* while (nextPageToken)
Continue(token) == Truthy(token)

\* the first record skipped
VideoIdsOfTail(all) == [i \in 1..(Len(all) - 1) |-> all[i + 1].videoId]

\* allVideos.map(item => item.contentDetails.videoId)
VideoIdsOf(all) == [i \in 1..Len(all) |-> all[i].videoId]

NoDetail == [id |-> "", duration |-> undefined, viewCount |-> undefined]

\* videosData.items.find(v => v.id === id): the first match; NoDetail stands
\* for undefined, whose fields read through ?. are undefined
Find(items, id) ==
    LET I == {i \in 1..Len(items) : items[i].id = id}
    IN  IF I = {} THEN NoDetail
        ELSE items[CHOOSE i \in I : \A j \in I : i <= j]

Enrich(item, items) ==
    LET videoDetails == Find(items, item.videoId)
    IN  [id |-> item.videoId,
         title |-> item.title,
         description |-> item.description,
         duration |-> JsOr(videoDetails.duration, <<"P", "T", "0", "S">>),
         viewCount |-> JsOr(videoDetails.viewCount, <<"0">>)]

\* an inner join: records without a detail record dropped
JoinInner(all, items) ==
    LET Has(item) == \E j \in 1..Len(items) : items[j].id = item.videoId
        kept == SelectSeq(all, Has)
    IN  [i \in 1..Len(kept) |-> Enrich(kept[i], items)]

\* allVideos.map(item => {...})
Join(all, items) == [i \in 1..Len(all) |-> Enrich(all[i], items)]

----------------------------------------------------------------------------
(* Rendering. *)

TruncateLimit == 120

createVideoCard(video) ==
    [id |-> video.id,
     title |-> video.title,
     duration |-> formatDuration(video.duration),
     description |-> truncateText(video.description, TruncateLimit)]

\* the plural form for every count
NoteTextPlural(n) == [written |-> TRUE, count |-> n, suffix |-> "s"]

\* the text of the summary label for n videos
NoteText(n) == [written |-> TRUE, count |-> n, suffix |-> IF n # 1 THEN "s" ELSE ""]

Show(kind, cards, message) ==
    /\ grid' = [kind |-> kind, cards |-> cards, message |-> message,
                link |-> kind = "error" /\ Truthy(YOUTUBE_PLAYLIST_ID)]
    /\ shown' = shown \cup {kind}

showLoading == Show("loading", << >>, NoError)

\* the error only logged, the grid left as it is
showErrorSilent(message) == UNCHANGED <<grid, shown>>

showError(message) == Show("error", << >>, message)

\* createVideoCard throws when formatDuration does
Throws(list) == \E i \in 1..Len(list) : formatDuration(list[i].duration) = TypeError

\* videos.map(video => createVideoCard(video))
Cards(list) == [i \in 1..Len(list) |-> createVideoCard(list[i])]

\* renderVideos(videos), inside the try of initializePlaylist: a card whose
\* duration cannot be parsed throws before the grid is written, and the
\* catch of initializePlaylist shows the error
renderVideos(list) ==
    /\ \/ Len(list) = 0 /\ Show("empty", << >>, NoError)
       \/ Len(list) # 0 /\ Throws(list) /\ showError([stage |-> "render", status |-> 0])
       \/ Len(list) # 0 /\ ~Throws(list) /\ Show("cards", Cards(list), NoError)
    /\ note' = IF Len(list) # 0 /\ ~Throws(list) /\ hasNote
               THEN NoteText(Len(list)) ELSE note

----------------------------------------------------------------------------
(* initializePlaylist and the continuations of its awaits. *)

\* the placeholder taken for a key
CredentialMissingEmpty(key) == ~Truthy(key)

CredentialMissing(key) == ~Truthy(key) \/ key = Placeholder

InitializePlaylist ==
    /\ pc = "start"
    /\ IF ~CONFIG.defined \/ CredentialMissing(CONFIG.YOUTUBE_API_KEY)
          \/ ~Truthy(YOUTUBE_PLAYLIST_ID)
       THEN /\ showError([stage |-> IF ~CONFIG.defined THEN "config"
                                    ELSE IF CredentialMissing(CONFIG.YOUTUBE_API_KEY)
                                    THEN "apikey" ELSE "playlistid",
                          status |-> 0])
            /\ pc' = "done"
            /\ UNCHANGED <<allVideos, nextPageToken, log, outstanding>>
       ELSE /\ showLoading
            /\ allVideos' = << >>
            /\ nextPageToken' = EmptyString
            /\ log' = Append(log, PageRequest(EmptyString))
            /\ outstanding' = Append(outstanding, PageRequest(EmptyString))
            /\ pc' = "awaitPage"
    /\ UNCHANGED <<CONFIG, YOUTUBE_PLAYLIST_ID, hasNote, playlist, videosData,
                   videos, thrown, note, input, output>>

\* a membership page arrives with response.ok
PageResponseOk ==
    /\ pc = "awaitPage"
    /\ outstanding # << >>
    /\ LET off == OffsetOf(Head(outstanding).pageToken)
       IN  \E k \in 0..Min(MaxResults, Len(playlist) - off) :
           \E cursor \in Cursors(off + k, Len(log)) :
               LET data  == [items |-> SubSeq(playlist, off + 1, off + k),
                             nextPageToken |-> cursor]
                   all   == Accumulate(allVideos, data.items)
                   token == JsOr(data.nextPageToken, EmptyString)
                   next  == IF Continue(token) THEN PageRequest(token)
                            ELSE DetailRequest(VideoIdsOf(all))
               IN  /\ allVideos' = all
                   /\ nextPageToken' = token
                   /\ log' = Append(log, next)
                   /\ outstanding' = Append(Tail(outstanding), next)
                   /\ pc' = IF Continue(token) THEN "awaitPage" ELSE "awaitDetail"
    /\ UNCHANGED <<CONFIG, YOUTUBE_PLAYLIST_ID, hasNote, playlist, videosData,
                   videos, thrown, grid, note, shown, input, output>>

\* a response that is not ok: the error thrown leaves fetchPlaylistVideos
\* through its catch and is shown by the catch of initializePlaylist
Fail(stage) ==
    /\ outstanding # << >>
    /\ \E status \in Statuses :
           /\ thrown' = [stage |-> stage, status |-> status]
           /\ showError([stage |-> stage, status |-> status])
    /\ outstanding' = Tail(outstanding)
    /\ pc' = "done"
    /\ UNCHANGED <<CONFIG, YOUTUBE_PLAYLIST_ID, hasNote, playlist, allVideos,
                   nextPageToken, log, videosData, videos, note, input, output>>

\* a failed page ends the loop and the records fetched so far are used
PageResponseFailPartial ==
    /\ pc = "awaitPage"
    /\ outstanding # << >>
    /\ log' = Append(log, DetailRequest(VideoIdsOf(allVideos)))
    /\ outstanding' = Append(Tail(outstanding), DetailRequest(VideoIdsOf(allVideos)))
    /\ nextPageToken' = EmptyString
    /\ thrown' = [stage |-> "playlist", status |-> 500]
    /\ pc' = "awaitDetail"
    /\ UNCHANGED <<CONFIG, YOUTUBE_PLAYLIST_ID, hasNote, playlist, allVideos,
                   videosData, videos, grid, note, shown, input, output>>

\* a failed detail request renders the membership records with the defaults
DetailResponseFailDegraded ==
    /\ pc = "awaitDetail"
    /\ outstanding # << >>
    /\ thrown' = [stage |-> "details", status |-> 500]
    /\ renderVideos(Join(allVideos, << >>))
    /\ outstanding' = Tail(outstanding)
    /\ pc' = "done"
    /\ UNCHANGED <<CONFIG, YOUTUBE_PLAYLIST_ID, hasNote, playlist, allVideos,
                   nextPageToken, log, videosData, videos, input, output>>

PageResponseFail == pc = "awaitPage" /\ Fail("playlist")

DetailResponseFail == pc = "awaitDetail" /\ Fail("details")

\* the detail response arrives with videosResponse.ok
DetailResponseOk ==
    /\ pc = "awaitDetail"
    /\ outstanding # << >>
    /\ \E items \in DetailResponses :
           /\ videosData' = items
           /\ videos' = [returned |-> TRUE, list |-> Join(allVideos, items)]
           /\ renderVideos(Join(allVideos, items))
    /\ outstanding' = Tail(outstanding)
    /\ pc' = "done"
    /\ UNCHANGED <<CONFIG, YOUTUBE_PLAYLIST_ID, hasNote, playlist, allVideos,
                   nextPageToken, log, thrown, input, output>>

NoCall == [done |-> FALSE, value |-> << >>]

Idle ==
    /\ pc = "start"
    /\ allVideos = << >>
    /\ nextPageToken = EmptyString
    /\ log = << >>
    /\ outstanding = << >>
    /\ videosData = << >>
    /\ videos = [returned |-> FALSE, list |-> << >>]
    /\ thrown = NoError
    /\ grid = GridInitial
    /\ note = NoteInitial
    /\ shown = {}

Init ==
    /\ CONFIG \in {[defined |-> FALSE, YOUTUBE_API_KEY |-> undefined]}
                    \cup [defined : {TRUE}, YOUTUBE_API_KEY : ApiKeys]
    /\ YOUTUBE_PLAYLIST_ID \in PlaylistIds
    /\ hasNote \in BOOLEAN
    /\ playlist \in Playlists
    /\ Idle
    /\ input = << >>
    /\ output = NoCall

Next ==
    \/ InitializePlaylist
    \/ PageResponseOk
    \/ PageResponseFail
    \/ DetailResponseOk
    \/ DetailResponseFail

Spec == Init /\ [][Next]_vars

\* fetch() settles every request, and the script runs initializePlaylist
FairSpec ==
    /\ Init /\ [][Next]_vars
    /\ WF_vars(InitializePlaylist)
    /\ WF_vars(PageResponseFail \/ PageResponseOk)
    /\ WF_vars(DetailResponseFail \/ DetailResponseOk)

----------------------------------------------------------------------------
(* Direct calls of the formatters, over bounded sets of arguments. *)

NoPage ==
    /\ CONFIG = [defined |-> FALSE, YOUTUBE_API_KEY |-> undefined]
    /\ YOUTUBE_PLAYLIST_ID = undefined
    /\ hasNote = FALSE
    /\ playlist = << >>
    /\ Idle

TestDigits == {"0", "1", "7"}

DigitStrings == UNION {[1..n -> TestDigits] : n \in 1..MaxDigits}

Components == {undefined} \cup DigitStrings

\* the ISO 8601 encoding of the components present (PT15M33S)
Encode(c) ==
    <<"P", "T">> \o (IF c.h = undefined THEN << >> ELSE c.h \o <<"H">>)
                 \o (IF c.m = undefined THEN << >> ELSE c.m \o <<"M">>)
                 \o (IF c.s = undefined THEN << >> ELSE c.s \o <<"S">>)

DurationInit ==
    /\ NoPage
    /\ input \in [h : Components, m : Components, s : Components]
    /\ output = NoCall

CallFormatDuration ==
    /\ ~output.done
    /\ output' = [done |-> TRUE, value |-> formatDuration(Encode(input))]
    /\ UNCHANGED <<progVars, input>>

DurationSpec == DurationInit /\ [][CallFormatDuration]_vars

TestChars == {" ", "a", "b"}

Texts == UNION {[1..n -> TestChars] : n \in 0..MaxTextLen}

TruncateInit ==
    /\ NoPage
    /\ input \in [text : Texts, maxLength : 0..(MaxTextLen + 1)]
    /\ output = NoCall

CallTruncateText ==
    /\ ~output.done
    /\ output' = [done |-> TRUE, value |-> truncateText(input.text, input.maxLength)]
    /\ UNCHANGED <<progVars, input>>

TruncateSpec == TruncateInit /\ [][CallTruncateText]_vars

----------------------------------------------------------------------------
(* The formatters' claims. *)

Two(c) == IF c = undefined THEN <<"0", "0">>
          ELSE IF Len(c) = 1 THEN <<"0">> \o c ELSE c

C7_Expected(c) ==
    IF c.h # undefined
    THEN c.h \o <<":">> \o Two(c.m) \o <<":">> \o Two(c.s)
    ELSE (IF c.m = undefined THEN <<"0">> ELSE c.m) \o <<":">> \o Two(c.s)

\* C7: formatDuration gives H:MM:SS when the hours component is present
\* (minutes and seconds padded to two digits, 00 when missing) and otherwise
\* M:SS (minutes unpadded, 0 when missing; seconds padded); PT2H15M33S gives
\* 2:15:33, PT15M33S gives 15:33, PT33S gives 0:33 and PT0S gives 0:00.
C7_FormatDuration ==
    /\ output.done => output.value = C7_Expected(input)
    /\ formatDuration(<<"P", "T", "2", "H", "1", "5", "M", "3", "3", "S">>)
           = <<"2", ":", "1", "5", ":", "3", "3">>
    /\ formatDuration(<<"P", "T", "1", "5", "M", "3", "3", "S">>)
           = <<"1", "5", ":", "3", "3">>
    /\ formatDuration(<<"P", "T", "3", "3", "S">>) = <<"0", ":", "3", "3">>
    /\ formatDuration(<<"P", "T", "0", "S">>) = <<"0", ":", "0", "0">>
    /\ formatDuration(<<"P", "T">>) = <<"0", ":", "0", "0">>

\* hours present, minutes missing, one digit of seconds: 1:00:07
C7_Witness ==
    /\ output.done
    /\ input.h # undefined /\ input.m = undefined
    /\ input.s # undefined /\ Len(input.s) = 1
    /\ Len(output.value) = Len(input.h) + 6

\* r is s without the white space at its end
IsTrimmedEnd(s, r) ==
    \E j \in 0..Len(s) :
        /\ r = SubSeq(s, 1, j)
        /\ \A k \in (j + 1)..Len(s) : IsSpace(s[k])
        /\ j > 0 => ~IsSpace(s[j])

\* r is s without the white space at its start and at its end
IsTrimmedBoth(s, r) ==
    \E i \in 1..(Len(s) + 1) : \E j \in 0..Len(s) :
        /\ r = SubSeq(s, i, j)
        /\ \A k \in 1..(i - 1) : IsSpace(s[k])
        /\ \A k \in (j + 1)..Len(s) : IsSpace(s[k])
        /\ i <= j => ~IsSpace(s[i]) /\ ~IsSpace(s[j])
        /\ i > j => \A k \in 1..Len(s) : IsSpace(s[k])

\* C8 as stated: a text longer than max gives its first max characters with
\* only the trailing white space removed, then the ellipsis.
C8_TrailingOnly ==
    output.done =>
        IF Len(input.text) <= input.maxLength
        THEN output.value = input.text
        ELSE \E r \in Texts :
                 /\ IsTrimmedEnd(SubSeq(input.text, 1, input.maxLength), r)
                 /\ output.value = r \o Ellipsis

\* C8 amended: a text at or under max is returned unchanged; a longer one
\* gives its first max characters with the white space at both ends removed,
\* then the ellipsis.
C8_TruncateText ==
    output.done =>
        IF Len(input.text) <= input.maxLength
        THEN output.value = input.text
        ELSE \E r \in Texts :
                 /\ IsTrimmedBoth(SubSeq(input.text, 1, input.maxLength), r)
                 /\ output.value = r \o Ellipsis

\* a cut that starts and ends with white space
C8_Witness ==
    /\ output.done
    /\ Len(input.text) > input.maxLength
    /\ input.maxLength >= 3
    /\ IsSpace(input.text[1]) /\ IsSpace(input.text[input.maxLength])
    /\ ~IsSpace(input.text[2])
    /\ Len(output.value) = input.maxLength - 2 + 3

----------------------------------------------------------------------------
(* The loader's claims. *)

Last(q) == q[Len(q)]

DetailRequestsIn(q) == {i \in 1..Len(q) : q[i].kind = "videos"}

\* C1: while every page request succeeds the accumulator is a prefix of the
\* provider's playlist, and once the page without a cursor has arrived it is
\* the whole playlist, in the provider's order.
C1_AccumulatesAll ==
    thrown.stage # "playlist" =>
        /\ Len(allVideos) <= Len(playlist)
        /\ allVideos = SubSeq(playlist, 1, Len(allVideos))
        /\ DetailRequestsIn(log) # {} => allVideos = playlist

\* three records, not all alike, that arrived over at least two pages
C1_Witness ==
    /\ pc = "awaitDetail"
    /\ Len(log) >= 3
    /\ Len(allVideos) = 3
    /\ allVideos[1] # allVideos[2]

\* C2: a membership page that fails makes fetchPlaylistVideos throw an error
\* with the HTTP status; it returns nothing, what was accumulated reaches
\* neither the caller nor the grid, and no request follows, neither for a
\* page nor for the details.
C2_PageFailure ==
    /\ [](thrown.stage = "playlist" =>
            /\ thrown.status \in Statuses
            /\ grid.kind = "error" /\ grid.message = thrown
            /\ ~videos.returned /\ videos.list = << >>
            /\ grid.cards = << >>
            /\ outstanding = << >>
            /\ DetailRequestsIn(log) = {}
            /\ pc = "done")
    /\ [][thrown.stage = "playlist" => log' = log /\ videos' = videos]_vars

\* the failure comes on a later page, with records already accumulated
C2_Witness ==
    /\ thrown.stage = "playlist"
    /\ Len(log) >= 2
    /\ Len(allVideos) >= 1

\* C3: the join gives one enriched video per membership record, at the same
\* position; it carries the values of the detail record with the same id, or
\* the defaults PT0S and "0" when there is none.
C3_Join ==
    videos.returned =>
        /\ Len(videos.list) = Len(allVideos)
        /\ \A i \in 1..Len(allVideos) :
               LET M == {j \in 1..Len(videosData) :
                             videosData[j].id = allVideos[i].videoId}
                   v == videos.list[i]
               IN  /\ v.id = allVideos[i].videoId
                   /\ v.title = allVideos[i].title
                   /\ v.description = allVideos[i].description
                   /\ M = {} => /\ v.duration = <<"P", "T", "0", "S">>
                                /\ v.viewCount = <<"0">>
                   /\ \A j \in M : /\ v.duration = videosData[j].duration
                                   /\ v.viewCount = videosData[j].viewCount

\* an id that occurs twice, one record with details and one without, and a
\* detail record of an id that is not the first of the response
C3_Witness ==
    /\ videos.returned
    /\ Len(allVideos) = 3
    /\ allVideos[1].videoId = allVideos[3].videoId
    /\ allVideos[1].videoId # allVideos[2].videoId
    /\ \E j \in 1..Len(videosData) : videosData[j].id = allVideos[1].videoId
    /\ \A j \in 1..Len(videosData) : videosData[j].id # allVideos[2].videoId

PreconditionFails ==
    \/ ~CONFIG.defined
    \/ CONFIG.YOUTUBE_API_KEY = EmptyString
    \/ CONFIG.YOUTUBE_API_KEY = Placeholder
    \/ YOUTUBE_PLAYLIST_ID = undefined
    \/ YOUTUBE_PLAYLIST_ID = EmptyString

\* C4: when a precondition fails, initializePlaylist ends in the error state,
\* no request is ever issued and the loading state is never shown.
C4_Preconditions ==
    PreconditionFails =>
        /\ log = << >> /\ outstanding = << >>
        /\ "loading" \notin shown
        /\ pc \in {"start", "done"}
        /\ pc = "done" => /\ grid.kind = "error"
                          /\ grid.message.stage \in {"config", "apikey", "playlistid"}

\* the placeholder credential of config.js
C4_Witness ==
    /\ pc = "done"
    /\ CONFIG.defined /\ CONFIG.YOUTUBE_API_KEY = Placeholder
    /\ Truthy(YOUTUBE_PLAYLIST_ID)
    /\ grid.kind = "error" /\ grid.message.stage = "apikey"

\* C5: the grid shows videos only when fetchPlaylistVideos returned, and then
\* one card per record of the playlist, in order; when a stage failed it
\* shows the error and no card was ever shown.
C5_AllOrNothing ==
    /\ grid.kind \in {"cards", "empty"} =>
           /\ thrown = NoError /\ videos.returned /\ pc = "done"
           /\ Len(grid.cards) = Len(playlist)
           /\ \A i \in 1..Len(playlist) :
                  /\ grid.cards[i].id = playlist[i].videoId
                  /\ grid.cards[i].title = playlist[i].title
    /\ thrown # NoError =>
           /\ grid.kind = "error" /\ grid.message = thrown
           /\ grid.cards = << >>
           /\ shown \subseteq {"loading", "error"}

\* the detail request fails after two or more records were accumulated
C5_Witness ==
    /\ thrown.stage = "details"
    /\ Len(allVideos) >= 2
    /\ grid.kind = "error"

\* C6: at most one request is outstanding; the detail request is issued once,
\* after the page without a cursor has arrived and as the last request, and
\* it carries the ids of all the records, in order.
C6_OneDetailRequest ==
    /\ Len(outstanding) <= 1
    /\ Cardinality(DetailRequestsIn(log)) <= 1
    /\ \A i \in DetailRequestsIn(log) :
           /\ i = Len(log)
           /\ nextPageToken = EmptyString
           /\ Len(log[i].ids) = Len(allVideos)
           /\ \A k \in 1..Len(allVideos) : log[i].ids[k] = allVideos[k].videoId
           /\ Len(log[i].ids) = Len(playlist)
    /\ (pc = "awaitDetail" \/ videos.returned \/ thrown.stage = "details")
           => DetailRequestsIn(log) # {}
    /\ pc = "awaitDetail" => outstanding = <<Last(log)>>
    /\ pc = "awaitPage" => outstanding = <<Last(log)>> /\ DetailRequestsIn(log) = {}

\* the detail request follows two pages or more and names two ids or more
C6_Witness ==
    /\ pc = "awaitDetail"
    /\ Len(log) >= 3
    /\ Len(Last(log).ids) >= 2
    /\ Last(log).ids[1] # Last(log).ids[2]

\* C9 as stated: after a load that gave N videos the grid shows N cards and
\* the summary label reads N, in the singular exactly when N = 1.
C9_CountEveryN ==
    (pc = "done" /\ videos.returned /\ hasNote) =>
        /\ Len(grid.cards) = Len(videos.list)
        /\ note = [written |-> TRUE, count |-> Len(videos.list),
                   suffix |-> IF Len(videos.list) = 1 THEN "" ELSE "s"]

\* C9 amended: after a load that gave N >= 1 videos the grid shows N cards,
\* one per video in order, and the summary label, when the page has one,
\* reads N, in the singular exactly when N = 1; after a load that gave no
\* video the grid shows the empty message and the label is left as it was.
C9_Summary ==
    (pc = "done" /\ videos.returned) =>
        /\ Len(grid.cards) = Len(videos.list)
        /\ \A i \in 1..Len(videos.list) :
               /\ grid.cards[i].id = videos.list[i].id
               /\ grid.cards[i].title = videos.list[i].title
               /\ grid.cards[i].duration = formatDuration(videos.list[i].duration)
        /\ IF Len(videos.list) >= 1
           THEN /\ grid.kind = "cards"
                /\ hasNote => note = [written |-> TRUE, count |-> Len(videos.list),
                                      suffix |-> IF Len(videos.list) = 1 THEN "" ELSE "s"]
                /\ ~hasNote => note = NoteInitial
           ELSE grid.kind = "empty" /\ note = NoteInitial

\* three videos from one page, each with its detail record
C9_Witness ==
    /\ pc = "done" /\ videos.returned /\ hasNote
    /\ Len(log) = 2
    /\ Len(videos.list) = 3
    /\ \A i \in 1..3 : \E j \in 1..Len(videosData) : videosData[j].id = videos.list[i].id
    /\ Len(grid.cards) = 3
    /\ note.count = 3 /\ note.suffix = "s"

Terminal == grid.kind \in {"cards", "empty", "error"}

\* C10: a run that shows the loading state ends in one terminal state, which
\* then stays; after a page that succeeded, a further page request is issued
\* exactly when the cursor kept is not empty, and a failure issues none.
C10_Terminates ==
    /\ (grid.kind = "loading") ~> Terminal
    /\ [][Terminal => grid' = grid /\ log' = log]_vars
    /\ [][(pc = "awaitPage" /\ pc' # "done") =>
             /\ Len(log') = Len(log) + 1
             /\ (Last(log').kind = "playlistItems") <=> (nextPageToken' # EmptyString)
             /\ Last(log').kind = "playlistItems" => Last(log').pageToken = nextPageToken']_vars
    /\ [][(pc = "awaitPage" /\ pc' = "done") => log' = log /\ grid'.kind = "error"]_vars

\* a run of three pages that ended with the videos shown
C10_Witness ==
    /\ pc = "done"
    /\ grid.kind = "cards"
    /\ Len(log) = 4
    /\ "loading" \in shown

====
